---- MODULE Spec2Model ----
(***************************************************************************)
(* Model of the LLM routing engine of agent_factory:                       *)
(*   core/llm_router.py  (route, budget guard, escalation, usage log)      *)
(*   core/ai_router.py   (failure records, legacy provider list)           *)
(*   core/response_normalizer.py (validity of a normalized reply)          *)
(*                                                                         *)
(* asyncio runs one coroutine at a time; the only suspension point of      *)
(* route() is `await _call_provider(...)`.  One action therefore covers    *)
(* the code from one suspension point to the next.                          *)
(*                                                                         *)
(* Units: time in ticks of the clock time.time(); money in thousandths of  *)
(* the unit of cost_per_1k_tokens (so cost*tokens/1000 is an integer);     *)
(* text lengths are multiples of 4 (so len/4 is an integer).               *)
(***************************************************************************)
EXTENDS Integers, Sequences, FiniteSets, TLC

\* ---------------------------------------------------------------- bounds
MaxTime == 2
MaxDay == 2
DaysPerMonth == 2
MaxSpend == 6
MaxRequests == 2
MaxAppends == 31
MaxUnanswered == 2

VARIABLES
    now,                \* time.time()
    today,              \* date.today(), as a day number
    environ,            \* os.environ: the credential variables that are set and non-empty
    config,             \* llm_router._config
    providers,          \* llm_router._providers (ordered registry)
    provider_failures,  \* ai_router._provider_failures: legacy name -> fail time (0 = no entry)
    daily_spend,        \* llm_router._daily_spend: day -> spend
    monthly_spend,      \* llm_router._monthly_spend: month -> spend
    usage_log,          \* logs/llm_usage.jsonl
    req,                \* the route() invocations: locals, position, result
    disp,               \* what each provider answers when called ("any": not fixed)
    hist,               \* per legacy name: time of the last mark_failed and whether a
                        \* failure was recorded since the last successful call
    budget_probe,       \* last (tier, answer) of a direct _check_budget call
    sessions,           \* ai_router._sessions: session id -> stored messages
    norm,               \* the last call of response_normalizer.normalize: text and result
    agents,             \* agents/<id>/profile.json and registry.json: per agent the status,
                        \* the consecutive-error counter and the role; with it the result
                        \* of the last status change and the entries into error in a row
    secret              \* where a credential value stands: per request the place of the
                        \* key in the text of last_error (0: not in it) and whether the
                        \* error text returned has it; whether a log message, whether a
                        \* usage-log record has it

vars == <<now, today, environ, config, providers, provider_failures,
          daily_spend, monthly_spend, usage_log, req, disp, hist, budget_probe,
          sessions, norm, secret, agents>>

Reqs == {1, 2}
Days == 1..MaxDay
MonthOf(d) == (d - 1) \div DaysPerMonth + 1
Months == {MonthOf(d) : d \in Days}

Min(S) == CHOOSE x \in S : \A y \in S : x <= y
InSeq(x, s) == \E i \in 1..Len(s) : s[i] = x

\* ------------------------------------------------------ provider tables
\* ai_router.PROVIDERS (name, credential variable, model); of its four entries the
\* model keeps groq and gemini (together and openrouter are built like groq)
LEGACY_PROVIDERS ==
    << [name |-> "groq",   key_env |-> "GROQ_API_KEY",   model |-> "llama-3.1-8b-instant"],
       [name |-> "gemini", key_env |-> "GEMINI_API_KEY", model |-> "gemini-2.0-flash"] >>

legacy_name_map(n) ==
    CASE n = "groq" -> "groq"
      [] n = "gemini" -> "gemini_flash"
      [] n = "together" -> "together_free"
      [] n = "openrouter" -> "openrouter_free"
      [] OTHER -> n

\* the `providers` section of config/llm_routing.yaml (ordered)
YamlProviders ==
    << [name |-> "gpt_mini", key_env |-> "OPENAI_API_KEY", model |-> "gpt-4o-mini",
        tier |-> "low_cost", cost_per_1k_tokens |-> 1],
       [name |-> "claude", key_env |-> "ANTHROPIC_API_KEY", model |-> "claude-sonnet",
        tier |-> "premium", cost_per_1k_tokens |-> 2] >>

KeyEnvs == {"GROQ_API_KEY", "GEMINI_API_KEY", "OPENAI_API_KEY", "ANTHROPIC_API_KEY"}

RoutingChain ==
    [general        |-> <<"groq", "gemini_flash">>,
     coding         |-> <<"gpt_mini", "nosuch", "groq">>,
     high_precision |-> <<"groq", "claude">>]

BaseConfig ==
    [providers |-> YamlProviders,
     routing_chain |-> RoutingChain,
     cooldown_sec |-> 1,
     schema_mismatch_threshold |-> 2,
     consecutive_fail_threshold |-> 2,
     auto_escalate_to_tier |-> "low_cost",
     premium_escalate_after |-> 2,
     daily_limit_usd |-> 3,
     monthly_limit_usd |-> 5,
     block_on_exceed |-> TRUE]

\* the configuration files the model starts from
ConfigSet ==
    { BaseConfig,
      [BaseConfig EXCEPT !.block_on_exceed = FALSE],
      [BaseConfig EXCEPT !.schema_mismatch_threshold = 1, !.premium_escalate_after = 0],
      [BaseConfig EXCEPT !.consecutive_fail_threshold = 3] }


\* ------------------------------------------------------------- registry
Names(s) == [i \in 1..Len(s) |-> s[i].name]

\* the legacy list registered with a price per 1k tokens
LegacyRegistry_Priced ==
    [i \in 1..Len(LEGACY_PROVIDERS) |->
        [name |-> legacy_name_map(LEGACY_PROVIDERS[i].name),
         key_env |-> LEGACY_PROVIDERS[i].key_env,
         model |-> LEGACY_PROVIDERS[i].model,
         tier |-> "free",
         cost_per_1k_tokens |-> 1,
         mapped_legacy |-> LEGACY_PROVIDERS[i].name]]

\* step 1 of _build_provider_registry: the legacy list under its mapped names
LegacyRegistry ==
    [i \in 1..Len(LEGACY_PROVIDERS) |->
        [name |-> legacy_name_map(LEGACY_PROVIDERS[i].name),
         key_env |-> LEGACY_PROVIDERS[i].key_env,
         model |-> LEGACY_PROVIDERS[i].model,
         tier |-> "free",
         cost_per_1k_tokens |-> 0,
         mapped_legacy |-> LEGACY_PROVIDERS[i].name]]

\* step 2: a configured provider overrides a registered one, or is added
RECURSIVE MergeYaml(_, _)
MergeYaml(registry, yaml) ==
    IF yaml = <<>> THEN registry
    ELSE LET y == Head(yaml)
             upd(p) == IF p.name = y.name
                       THEN [p EXCEPT !.key_env = y.key_env, !.model = y.model,
                                      !.tier = y.tier,
                                      !.cost_per_1k_tokens = y.cost_per_1k_tokens]
                       ELSE p
             merged == IF InSeq(y.name, Names(registry))
                       THEN [i \in 1..Len(registry) |-> upd(registry[i])]
                       ELSE Append(registry,
                                   [name |-> y.name, key_env |-> y.key_env,
                                    model |-> y.model, tier |-> y.tier,
                                    cost_per_1k_tokens |-> y.cost_per_1k_tokens,
                                    mapped_legacy |-> ""])
         IN MergeYaml(merged, Tail(yaml))

build_provider_registry(cfg) == MergeYaml(LegacyRegistry, cfg.providers)

Registered(name) == InSeq(name, Names(providers))
get_provider(name) == providers[CHOOSE i \in 1..Len(providers) : providers[i].name = name]

\* the key of a provider in _provider_failures:
\* prov.get("mapped_legacy", prov.get("name")) and prov.get("mapped_legacy", prov_name)
FailKey(prov) == IF prov.mapped_legacy # "" THEN prov.mapped_legacy ELSE prov.name
FailKeys == {"groq", "gemini", "gpt_mini", "claude"}

\* availability whose cooldown still holds at exactly cooldown_sec
is_provider_available_Inclusive(prov, failures, t) ==
    IF prov.key_env \notin environ THEN FALSE
    ELSE LET fail_time == failures[FailKey(prov)]
         IN IF fail_time # 0 /\ (t - fail_time) <= config.cooldown_sec
            THEN FALSE ELSE TRUE

\* --------------------------------------------------------- availability
is_provider_available(prov, failures, t) ==
    IF prov.key_env \notin environ THEN FALSE
    ELSE LET fail_time == failures[FailKey(prov)]
         IN IF fail_time # 0 /\ (t - fail_time) < config.cooldown_sec
            THEN FALSE ELSE TRUE

\* a failure that leaves no record
mark_failed_Never(failures, key, t) == failures

\* ai_router._mark_failed
mark_failed(failures, key, t) == [failures EXCEPT ![key] = t]
\* a success that leaves the failure record in place
pop_failure_Keep(failures, key) == failures

\* _provider_failures.pop(legacy_name, None)
pop_failure(failures, key) == [failures EXCEPT ![key] = 0]

\* budget guard that denies only above the ceiling
check_budget_Above(tier, dspend, mspend) ==
    IF tier = "free" THEN [allowed |-> TRUE, reason |-> ""]
    ELSE IF ~config.block_on_exceed THEN [allowed |-> TRUE, reason |-> ""]
    ELSE IF dspend[today] > config.daily_limit_usd
         THEN [allowed |-> FALSE, reason |-> "daily"]
    ELSE IF mspend[MonthOf(today)] > config.monthly_limit_usd
         THEN [allowed |-> FALSE, reason |-> "monthly"]
    ELSE [allowed |-> TRUE, reason |-> ""]

\* --------------------------------------------------------- budget guard
check_budget(tier, dspend, mspend) ==
    IF tier = "free" THEN [allowed |-> TRUE, reason |-> ""]
    ELSE IF ~config.block_on_exceed THEN [allowed |-> TRUE, reason |-> ""]
    ELSE IF dspend[today] >= config.daily_limit_usd
         THEN [allowed |-> FALSE, reason |-> "daily"]
    ELSE IF mspend[MonthOf(today)] >= config.monthly_limit_usd
         THEN [allowed |-> FALSE, reason |-> "monthly"]
    ELSE [allowed |-> TRUE, reason |-> ""]

\* _record_cost that adds nothing
record_cost_NoAdd(spend, key, cost_usd) == spend

\* _record_cost applied to one ledger
record_cost(spend, key, cost_usd) == [spend EXCEPT ![key] = @ + cost_usd]

\* ----------------------------------------------------------- escalation
TierIdx(t) == CASE t = "free" -> 0 [] t = "low_cost" -> 1 [] t = "premium" -> 2 [] OTHER -> -1
Max2(a, b) == IF a >= b THEN a ELSE b

append_escalation_chain(esc_chain, current_tier, tried) ==
    LET current_idx == IF TierIdx(current_tier) >= 0 THEN TierIdx(current_tier) ELSE 0
        target_idx == IF TierIdx(config.auto_escalate_to_tier) >= 0
                      THEN TierIdx(config.auto_escalate_to_tier) ELSE 1
        skip_from == Max2(target_idx, current_idx + 1)
        Higher(p) == /\ TierIdx(p.tier) >= 0
                     /\ ~(TierIdx(p.tier) >= skip_from)
                     /\ TierIdx(p.tier) >= target_idx
                     /\ ~InSeq(p.name, esc_chain)
                     /\ ~InSeq(p.name, tried)
        esc1 == esc_chain \o Names(SelectSeq(providers, Higher))
        Premium(p) == p.tier = "premium" /\ ~InSeq(p.name, esc1)
    IN IF Len(esc1) <= config.premium_escalate_after
       THEN esc1 \o Names(SelectSeq(providers, Premium))
       ELSE esc1


\* -------------------------------------------------- replies, normalizer
\* what a provider call can do: raise, or return one of three reply texts
\* ("json": a non-empty JSON object; "prose": text without JSON; "": empty)
Replies == {"json", "prose", ""}
Outcomes == {"error"} \cup Replies
ReplyLen(reply) == CASE reply = "json" -> 8 [] reply = "prose" -> 4 [] OTHER -> 0

\* normalize(reply)["_valid"]: an extracted non-empty object is coerced to the
\* schema and validates; without an extracted object the fallback sets False
normalize(reply) == IF reply = "json" THEN "valid" ELSE "invalid"

\* ------------------------------------------------------ route(): locals
NoError == [kind |-> "none", prov |-> ""]
NoResult == [reply |-> "", provider |-> "", model |-> "", tier |-> "",
             retries |-> 0, failover_count |-> 0, escalated |-> FALSE,
             error |-> [kind |-> "unset", prov |-> ""], normalized |-> "none"]

\* the failover, budget and escalation settings of a configuration
Settings(cfg) ==
    [cooldown_sec |-> cfg.cooldown_sec,
     daily_limit_usd |-> cfg.daily_limit_usd,
     monthly_limit_usd |-> cfg.monthly_limit_usd,
     block_on_exceed |-> cfg.block_on_exceed,
     schema_mismatch_threshold |-> cfg.schema_mismatch_threshold,
     consecutive_fail_threshold |-> cfg.consecutive_fail_threshold,
     auto_escalate_to_tier |-> cfg.auto_escalate_to_tier,
     premium_escalate_after |-> cfg.premium_escalate_after]

\* started_with is history: the settings in force when route() was entered;
\* session is the session id of the route_chat call that made the request ("" for a
\* direct call of route), sent_len the characters of the prompt or user message in
\* the messages sent, cleared whether the session was cleared since the call started
IdleReq ==
    [pc |-> "idle", session |-> "", sent_len |-> 0, cleared |-> FALSE, started_with |-> Settings(BaseConfig), task_class |-> "", priority |-> "", require_structured |-> FALSE,
     prompt_len |-> 0, chain |-> <<>>, escalation_cfg |-> [schema_mismatch_threshold |-> 0,
                                                           consecutive_fail_threshold |-> 0],
     phase |-> "", idx |-> 0, retries |-> 0, failover_count |-> 0, escalated |-> FALSE,
     consecutive_schema_fails |-> 0, last_error |-> NoError, escalation_chain |-> <<>>,
     visited |-> <<>>, result |-> NoResult]

\* Status without the test `prov_name in chain` of the escalation loop
Status_NoChainTest(name, phase, chain, failures, dspend, mspend, t) ==
    IF ~InSeq(name, Names(providers)) THEN "unregistered"
    ELSE IF ~is_provider_available(get_provider(name), failures, t) THEN "unavailable"
    ELSE IF ~check_budget(get_provider(name).tier, dspend, mspend).allowed THEN "budget_denied"
    ELSE "eligible"

\* what the loop head decides for one candidate (lines 335-347, 429-437)
Status(name, phase, chain, failures, dspend, mspend, t) ==
    IF phase = "esc" /\ InSeq(name, chain) THEN "in_chain"
    ELSE IF ~Registered(name) THEN "unregistered"
    ELSE IF ~is_provider_available(get_provider(name), failures, t) THEN "unavailable"
    ELSE IF ~check_budget(get_provider(name).tier, dspend, mspend).allowed THEN "budget_denied"
    ELSE "eligible"

\* Exhausted, but without the default message when no error was observed
Exhausted_NoDefaultError(st) ==
    [st EXCEPT !.pc = "done",
               !.result = [reply |-> "", provider |-> "", model |-> "", tier |-> "",
                           retries |-> st.retries, failover_count |-> st.failover_count,
                           escalated |-> st.escalated,
                           error |-> st.last_error,
                           normalized |-> "none"]]

\* lines 480-503: every candidate exhausted
Exhausted(st) ==
    [st EXCEPT !.pc = "done",
               !.result = [reply |-> "", provider |-> "", model |-> "", tier |-> "",
                           retries |-> st.retries, failover_count |-> st.failover_count,
                           escalated |-> st.escalated,
                           error |-> IF st.last_error = NoError
                                     THEN [kind |-> "no_provider", prov |-> ""]
                                     ELSE st.last_error,
                           normalized |-> "none"]]

\* the for-loop, passing over its first candidate without a test
ScanList_SkipFirst(st, phase, seq, from, failures, dspend, mspend, t) ==
    LET St(i) == Status(seq[i], phase, st.chain, failures, dspend, mspend, t)
        E == {i \in (from + 1)..Len(seq) : St(i) = "eligible"}
        stop == IF E = {} THEN Len(seq) + 1 ELSE Min(E)
        skipped == [k \in 1..(stop - from) |->
                       [name |-> seq[from + k - 1], phase |-> phase,
                        status |-> St(from + k - 1)]]
    IN [found |-> E # {},
        st |-> [st EXCEPT !.phase = phase, !.idx = stop,
                          !.pc = IF E # {} THEN "calling" ELSE @,
                          !.visited = IF E # {}
                                      THEN (@ \o skipped) \o
                                           <<[name |-> seq[stop], phase |-> phase,
                                              status |-> "calling"]>>
                                      ELSE @ \o skipped]]

\* the for-loop over one list from position `from` up to the next call
ScanList(st, phase, seq, from, failures, dspend, mspend, t) ==
    LET St(i) == Status(seq[i], phase, st.chain, failures, dspend, mspend, t)
        E == {i \in from..Len(seq) : St(i) = "eligible"}
        stop == IF E = {} THEN Len(seq) + 1 ELSE Min(E)
        skipped == [k \in 1..(stop - from) |->
                       [name |-> seq[from + k - 1], phase |-> phase,
                        status |-> St(from + k - 1)]]
    IN [found |-> E # {},
        st |-> [st EXCEPT !.phase = phase, !.idx = stop,
                          !.pc = IF E # {} THEN "calling" ELSE @,
                          !.visited = IF E # {}
                                      THEN (@ \o skipped) \o
                                           <<[name |-> seq[stop], phase |-> phase,
                                              status |-> "calling"]>>
                                      ELSE @ \o skipped]]

\* route() without the escalation loop
ScanEsc_NoLoop(st, from, failures, dspend, mspend, t) == Exhausted(st)

\* lines 426-478 loop head, then 480-503
ScanEsc(st, from, failures, dspend, mspend, t) ==
    LET s == ScanList(st, "esc", st.escalation_chain, from, failures, dspend, mspend, t)
    IN IF s.found THEN s.st ELSE Exhausted(s.st)

\* lines 334-347 loop head; on exhaustion the escalation loop follows
ScanBase(st, from, failures, dspend, mspend, t) ==
    LET s == ScanList(st, "base", st.chain, from, failures, dspend, mspend, t)
    IN IF s.found THEN s.st
       ELSE ScanEsc(s.st, 1, failures, dspend, mspend, t)

\* the record route() hands to _log_usage
LogEntry(r, st) ==
    [agent_id |-> r, provider |-> st.result.provider, model |-> st.result.model,
     tier |-> st.result.tier, task_class |-> st.task_class,
     success |-> (st.result.error = NoError),
     retries |-> st.result.retries, failover_count |-> st.result.failover_count,
     escalated |-> st.result.escalated, error |-> st.result.error]

\* _log_usage called on the success paths only
log_usage_SuccessOnly(log, r, st) ==
    IF st.pc = "done" /\ st.result.error = NoError THEN Append(log, LogEntry(r, st)) ELSE log

log_usage(log, r, st) == IF st.pc = "done" THEN Append(log, LogEntry(r, st)) ELSE log

SetLast(visited, status) == [visited EXCEPT ![Len(visited)].status = status]

\* lines 382-408 and 454-473: the success return
Succeed(st, prov, reply, normalized, escalated) ==
    [st EXCEPT !.pc = "done",
               !.visited = SetLast(@, "ok"),
               !.result = [reply |-> reply, provider |-> prov.name, model |-> prov.model,
                           tier |-> prov.tier, retries |-> st.retries,
                           failover_count |-> st.failover_count,
                           escalated |-> escalated, error |-> NoError,
                           normalized |-> normalized]]


\* HandleReplyBase that fails over on every invalid reply, whatever the threshold
HandleReplyBase_AlwaysFailover(st, prov, reply) ==
    LET normalized == IF st.require_structured THEN normalize(reply) ELSE "none"
        fails == IF normalized = "invalid" THEN st.consecutive_schema_fails + 1
                 ELSE IF normalized = "valid" THEN 0
                 ELSE st.consecutive_schema_fails
        st1 == [st EXCEPT !.consecutive_schema_fails = fails]
    IN IF normalized = "invalid"
       THEN [st1 EXCEPT !.escalated = TRUE,
                        !.escalation_chain = append_escalation_chain(@, prov.tier, st.chain),
                        !.failover_count = @ + 1,
                        !.last_error = [kind |-> "schema", prov |-> ""],
                        !.visited = SetLast(@, "schema_failover")]
       ELSE Succeed(st1, prov, reply, normalized, st1.escalated)

\* lines 364-380: normalization of a base-chain reply and the schema-mismatch trigger;
\* pc stays "calling" when the loop goes on to the next candidate
HandleReplyBase(st, prov, reply) ==
    LET normalized == IF st.require_structured THEN normalize(reply) ELSE "none"
        fails == IF normalized = "invalid" THEN st.consecutive_schema_fails + 1
                 ELSE IF normalized = "valid" THEN 0
                 ELSE st.consecutive_schema_fails
        st1 == [st EXCEPT !.consecutive_schema_fails = fails]
    IN IF normalized = "invalid" /\ fails >= st.escalation_cfg.schema_mismatch_threshold
       THEN [st1 EXCEPT !.escalated = TRUE,
                        !.escalation_chain = append_escalation_chain(@, prov.tier, st.chain),
                        !.failover_count = @ + 1,
                        !.last_error = [kind |-> "schema", prov |-> ""],
                        !.visited = SetLast(@, "schema_failover")]
       ELSE Succeed(st1, prov, reply, normalized, st1.escalated)

\* lines 410-424: a base-chain call raised
HandleErrorBase(st, prov) ==
    LET st1 == [st EXCEPT !.retries = @ + 1,
                          !.failover_count = @ + 1,
                          !.last_error = [kind |-> "provider", prov |-> prov.name],
                          !.visited = SetLast(@, "error")]
    IN IF st1.failover_count >= st.escalation_cfg.consecutive_fail_threshold /\ ~st1.escalated
       THEN [st1 EXCEPT !.escalated = TRUE,
                        !.escalation_chain = append_escalation_chain(@, "free", st.chain)]
       ELSE st1

\* an escalation call raised, its error not kept
HandleErrorEsc_ErrorLost(st, prov) ==
    [st EXCEPT !.visited = SetLast(@, "error")]

\* lines 474-478: an escalation call raised
HandleErrorEsc(st, prov) ==
    [st EXCEPT !.last_error = [kind |-> "escalation", prov |-> prov.name],
               !.visited = SetLast(@, "error")]

\* lines 450-473: an escalation call returned
HandleReplyEsc(st, prov, reply) ==
    Succeed(st, prov, reply,
            IF st.require_structured THEN normalize(reply) ELSE "none", TRUE)

\* lines 359-362 / 445-448: the amount handed to _record_cost
EstimatedCost(prov, reply, prompt_len) ==
    IF prov.cost_per_1k_tokens > 0
    THEN prov.cost_per_1k_tokens * (ReplyLen(reply) \div 4 + prompt_len \div 4)
    ELSE 0

CurrentName(st) == IF st.phase = "base" THEN st.chain[st.idx] ELSE st.escalation_chain[st.idx]

\* --------------------------------------------------------------- actions
TaskClasses == {"general", "coding", "high_precision", "other"}
Priorities == {"normal", "critical"}
PromptLens == {0, 4}

\* ------------------------------------------------ sessions (ai_router)
MAX_HISTORY == 20
SessionIds == {"s1"}
Roles == {"user", "assistant"}

\* a session id without an entry in _sessions; `appended` and `unanswered` are
\* history: the add_message calls since the entry was created, and how many of them
\* stored a user message directly after a user message
NoSession == [exists |-> FALSE, messages |-> <<>>, appended |-> 0, unanswered |-> 0]

\* a stored message as it was added: content names the text (the number of the
\* add_message call); a summary message has content 0 and one line for every
\* message it replaced, digest being the number of its lines
Message(role, content) == [role |-> role, content |-> content, digest |-> 0, lines |-> <<>>]

\* a summary line that tags every message as the assistant's
SummaryLine_AllAI(m) == [tag |-> "AI", head_of |-> m.content]

\* one line of a summary: the tag and the first 80 characters of the content
SummaryLine(m) ==
    [tag |-> IF m.role = "user" THEN "user" ELSE "AI", head_of |-> m.content]

\* _compress_history that replaces the first message only
compress_history_FirstOnly(msgs) ==
    <<[role |-> "system", content |-> 0, digest |-> 1, lines |-> <<SummaryLine(msgs[1])>>]>>
    \o SubSeq(msgs, 2, Len(msgs))

\* _compress_history: the first half becomes one system message
compress_history(msgs) ==
    LET half == Len(msgs) \div 2
    IN <<[role |-> "system", content |-> 0, digest |-> half,
          lines |-> [i \in 1..half |-> SummaryLine(msgs[i])]]>>
       \o SubSeq(msgs, half + 1, Len(msgs))

\* the list add_message leaves in the session
add_message(msgs, role, content) ==
    LET appended == Append(msgs, Message(role, content))
    IN IF Len(appended) > MAX_HISTORY THEN compress_history(appended) ELSE appended

\* get_session and add_message on one entry of _sessions
stored(sess, role) ==
    [exists |-> TRUE,
     messages |-> add_message(sess.messages, role, sess.appended + 1),
     appended |-> sess.appended + 1,
     unanswered |-> IF role = "user" /\ sess.messages # <<>>
                       /\ sess.messages[Len(sess.messages)].role = "user"
                    THEN sess.unanswered + 1 ELSE sess.unanswered]

\* route_chat, lines 561-562: the reply of a request that ended without error and
\* with a non-empty reply is stored as the assistant's message
chat_reply(sess, st) ==
    IF st.pc = "done" /\ st.session # "" /\ st.result.error = NoError /\ st.result.reply # ""
    THEN [sess EXCEPT ![st.session] = stored(@, "assistant")]
    ELSE sess

\* ------------------------------------- response_normalizer: the values
\* Python values, as json.loads returns them and as normalize builds them
PNone == [t |-> "none"]
PInt(n) == [t |-> "int", n |-> n]
PStr(c) == [t |-> "str", c |-> c]
PList(l) == [t |-> "list", l |-> l]
PDict(d) == [t |-> "dict", d |-> d]

\* the characters of a str: a literal, the str() of a value that is no str, or the
\* first `upto` characters of a text
Lit(id) == [k |-> "lit", id |-> id]
Repr(v) == [k |-> "repr", of |-> v]
EmptyStr == PStr(Lit(""))

\* a text handed to normalize: `lead` and `trail` white-space characters around a body
\* of `len` characters; the body is prose without braces, or holds one JSON object
\* (bare, in a ``` fence, or between prose), well-formed or not
TextLen(T) == T.lead + T.len + T.trail
Min2(a, b) == IF a <= b THEN a ELSE b
Whole(T) == [k |-> "raw", text |-> T, upto |-> TextLen(T)]
\* str.strip()
Strip(T) == [T EXCEPT !.lead = 0, !.trail = 0]
\* s[:n]
Take(c, n) == [c EXCEPT !.upto = Min2(@, n)]

\* dict.get(k, default)
Get(d, k, default) == IF k \in DOMAIN d THEN d[k] ELSE default
\* str(v)
Str(v) == IF v.t = "str" THEN v ELSE PStr(Repr(v))

TITLE_LEN == 80

\* ---------------------------------- response_normalizer: the functions
\* _extract_json: the bare object is loaded in step 1, the fenced one in step 2, the
\* one between prose in step 3 (objects nested no deeper than the schema's);
\* a malformed object fails json.loads in every step
extract_json(T) ==
    IF T.body.b = "json" /\ T.body.ok THEN PDict(T.body.obj) ELSE PNone

Dropped == [t |-> "dropped"]
Kept(x) == x # Dropped

\* _coerce_to_schema with the steps renumbered by position
coerce_to_schema_Renumber(data) ==
    LET raw_steps == Get(data, "steps", PList(<<>>))
        StepOf(x, i) ==
            IF x.t = "dict"
            THEN PDict([step |-> PInt(i),
                        action |-> Str(Get(x.d, "action", Get(x.d, "name", EmptyStr))),
                        details |-> Str(Get(x.d, "details",
                                        Get(x.d, "description", Get(x.d, "detail", EmptyStr))))])
            ELSE IF x.t = "str"
            THEN PDict([step |-> PInt(i), action |-> x, details |-> EmptyStr])
            ELSE Dropped
        raw_arts == Get(data, "artifacts", PList(<<>>))
        ArtOf(x) ==
            IF x.t = "dict"
            THEN PDict([type |-> Str(Get(x.d, "type", PStr(Lit("file")))),
                        path |-> Str(Get(x.d, "path", EmptyStr))])
            ELSE IF x.t = "str" THEN PDict([type |-> PStr(Lit("file")), path |-> x])
            ELSE Dropped
        raw_risks == Get(data, "risks", PList(<<>>))
        RiskOf(x) ==
            IF x.t = "dict"
            THEN PDict([risk |-> Str(Get(x.d, "risk", EmptyStr)),
                        mitigation |-> Str(Get(x.d, "mitigation", EmptyStr))])
            ELSE IF x.t = "str" THEN PDict([risk |-> x, mitigation |-> EmptyStr])
            ELSE Dropped
        raw_next == Get(data, "next", PList(<<>>))
    IN [title |-> Str(Get(data, "title", EmptyStr)),
        summary |-> Str(Get(data, "summary", Get(data, "description", EmptyStr))),
        steps |-> IF raw_steps.t = "list"
                  THEN PList(SelectSeq([i \in 1..Len(raw_steps.l) |-> StepOf(raw_steps.l[i], i)],
                                       Kept))
                  ELSE PList(<<>>),
        artifacts |-> IF raw_arts.t = "list"
                      THEN PList(SelectSeq([i \in 1..Len(raw_arts.l) |-> ArtOf(raw_arts.l[i])],
                                           Kept))
                      ELSE PList(<<>>),
        risks |-> IF raw_risks.t = "list"
                  THEN PList(SelectSeq([i \in 1..Len(raw_risks.l) |-> RiskOf(raw_risks.l[i])],
                                       Kept))
                  ELSE PList(<<>>),
        next |-> IF raw_next.t = "list"
                 THEN PList([i \in 1..Len(raw_next.l) |-> Str(raw_next.l[i])])
                 ELSE IF raw_next.t = "str" THEN PList(<<raw_next>>)
                 ELSE PList(<<>>)]

\* _coerce_to_schema (of the alternative key names the model keeps the ASCII ones)
coerce_to_schema(data) ==
    LET raw_steps == Get(data, "steps", PList(<<>>))
        StepOf(x, i) ==
            IF x.t = "dict"
            THEN PDict([step |-> Get(x.d, "step", PInt(i)),
                        action |-> Str(Get(x.d, "action", Get(x.d, "name", EmptyStr))),
                        details |-> Str(Get(x.d, "details",
                                        Get(x.d, "description", Get(x.d, "detail", EmptyStr))))])
            ELSE IF x.t = "str"
            THEN PDict([step |-> PInt(i), action |-> x, details |-> EmptyStr])
            ELSE Dropped
        raw_arts == Get(data, "artifacts", PList(<<>>))
        ArtOf(x) ==
            IF x.t = "dict"
            THEN PDict([type |-> Str(Get(x.d, "type", PStr(Lit("file")))),
                        path |-> Str(Get(x.d, "path", EmptyStr))])
            ELSE IF x.t = "str" THEN PDict([type |-> PStr(Lit("file")), path |-> x])
            ELSE Dropped
        raw_risks == Get(data, "risks", PList(<<>>))
        RiskOf(x) ==
            IF x.t = "dict"
            THEN PDict([risk |-> Str(Get(x.d, "risk", EmptyStr)),
                        mitigation |-> Str(Get(x.d, "mitigation", EmptyStr))])
            ELSE IF x.t = "str" THEN PDict([risk |-> x, mitigation |-> EmptyStr])
            ELSE Dropped
        raw_next == Get(data, "next", PList(<<>>))
    IN [title |-> Str(Get(data, "title", EmptyStr)),
        summary |-> Str(Get(data, "summary", Get(data, "description", EmptyStr))),
        steps |-> IF raw_steps.t = "list"
                  THEN PList(SelectSeq([i \in 1..Len(raw_steps.l) |-> StepOf(raw_steps.l[i], i)],
                                       Kept))
                  ELSE PList(<<>>),
        artifacts |-> IF raw_arts.t = "list"
                      THEN PList(SelectSeq([i \in 1..Len(raw_arts.l) |-> ArtOf(raw_arts.l[i])],
                                           Kept))
                      ELSE PList(<<>>),
        risks |-> IF raw_risks.t = "list"
                  THEN PList(SelectSeq([i \in 1..Len(raw_risks.l) |-> RiskOf(raw_risks.l[i])],
                                       Kept))
                  ELSE PList(<<>>),
        next |-> IF raw_next.t = "list"
                 THEN PList([i \in 1..Len(raw_next.l) |-> Str(raw_next.l[i])])
                 ELSE IF raw_next.t = "str" THEN PList(<<raw_next>>)
                 ELSE PList(<<>>)]

\* RESPONSE_SCHEMA: field -> expected type
RESPONSE_SCHEMA ==
    << <<"title", "str">>, <<"summary", "str">>, <<"steps", "list">>,
       <<"artifacts", "list">>, <<"risks", "list">>, <<"next", "list">> >>

\* validate_schema: the list of violations
validate_schema(data) ==
    LET FieldCheck(f) ==
            IF f[1] \notin DOMAIN data THEN <<[field |-> f[1], problem |-> "missing"]>>
            ELSE IF data[f[1]].t # f[2] THEN <<[field |-> f[1], problem |-> "type"]>>
            ELSE <<>>
        StepCheck(x) ==
            IF x.t # "dict" THEN <<[field |-> "steps", problem |-> "item_not_dict"]>>
            ELSE IF "action" \notin DOMAIN x.d
                 THEN <<[field |-> "steps", problem |-> "action_missing"]>>
            ELSE <<>>
        RECURSIVE Concat(_, _)
        Concat(seq, i) == IF i > Len(seq) THEN <<>> ELSE seq[i] \o Concat(seq, i + 1)
        fields == Concat([i \in 1..Len(RESPONSE_SCHEMA) |-> FieldCheck(RESPONSE_SCHEMA[i])], 1)
        inner == IF "steps" \in DOMAIN data /\ data["steps"].t = "list"
                 THEN Concat([i \in 1..Len(data["steps"].l) |-> StepCheck(data["steps"].l[i])], 1)
                 ELSE <<>>
    IN fields \o inner

\* the record normalize returns: the six fields, and raw, valid, violations for
\* the keys _raw, _valid, _violations
Normalized(fields, raw_text, violations, valid) ==
    [title |-> fields.title, summary |-> fields.summary, steps |-> fields.steps,
     artifacts |-> fields.artifacts, risks |-> fields.risks, next |-> fields.next,
     raw |-> PStr(Whole(raw_text)), valid |-> valid, violations |-> violations]

EMPTY_RESPONSE ==
    [title |-> EmptyStr, summary |-> EmptyStr, steps |-> PList(<<>>),
     artifacts |-> PList(<<>>), risks |-> PList(<<>>), next |-> PList(<<>>)]

\* normalize whose fallback title is cut from the text as it came
normalize_text_Unstripped(raw_text) ==
    LET extracted == extract_json(raw_text)
    IN IF extracted # PNone /\ DOMAIN extracted.d # {}
       THEN LET normalized == coerce_to_schema(extracted.d)
                violations == validate_schema(normalized)
            IN Normalized(normalized, raw_text, violations, violations = <<>>)
       ELSE Normalized([EMPTY_RESPONSE EXCEPT
                           !.summary = PStr(Whole(Strip(raw_text))),
                           !.title = PStr(Take(Whole(raw_text), TITLE_LEN))],
                       raw_text, <<"json_extraction_failed">>, FALSE)

\* normalize(raw_text), lines 171-202; `if extracted:` is false for None and for {}
normalize_text(raw_text) ==
    LET extracted == extract_json(raw_text)
    IN IF extracted # PNone /\ DOMAIN extracted.d # {}
       THEN LET normalized == coerce_to_schema(extracted.d)
                violations == validate_schema(normalized)
            IN Normalized(normalized, raw_text, violations, violations = <<>>)
       ELSE Normalized([EMPTY_RESPONSE EXCEPT
                           !.summary = PStr(Whole(Strip(raw_text))),
                           !.title = PStr(Take(Whole(Strip(raw_text)), TITLE_LEN))],
                       raw_text, <<"json_extraction_failed">>, FALSE)

\* the six fields of a normalized record, as the dict a caller would serialize
SixFields(out) ==
    [title |-> out.title, summary |-> out.summary, steps |-> out.steps,
     artifacts |-> out.artifacts, risks |-> out.risks, next |-> out.next]

\* ------------------------------------ response_normalizer: json.dumps
KeyLen(k) ==
    CASE k \in {"next", "step", "type", "path", "risk", "name"} -> 4
      [] k \in {"title", "steps", "risks"} -> 5
      [] k \in {"action", "detail"} -> 6
      [] k \in {"summary", "details"} -> 7
      [] k = "artifacts" -> 9
      [] k = "mitigation" -> 10
      [] k = "description" -> 11
LitLen(id) == CASE id = "" -> 0 [] id = "file" -> 4 [] id = "docs" -> 4 [] OTHER -> 1

\* the number of characters of json.dumps(v) with the default separators; the
\* str() of a value that is no str is as long as its JSON form
RECURSIVE DumpLen(_)
DumpLen(v) ==
    LET RECURSIVE SumSeq(_, _)
        SumSeq(l, i) == IF i > Len(l) THEN 0 ELSE DumpLen(l[i]) + SumSeq(l, i + 1)
        RECURSIVE SumKeys(_, _)
        SumKeys(d, ks) ==
            IF ks = {} THEN 0
            ELSE LET k == CHOOSE x \in ks : TRUE
                 IN KeyLen(k) + 4 + DumpLen(d[k]) + SumKeys(d, ks \ {k})
        Commas(n) == IF n > 0 THEN 2 * (n - 1) ELSE 0
    IN CASE v.t = "none" -> 4
         [] v.t = "int" -> IF v.n < 10 THEN 1 ELSE 2
         [] v.t = "str" -> 2 + (CASE v.c.k = "lit" -> LitLen(v.c.id)
                                  [] v.c.k = "raw" -> v.c.upto
                                  [] v.c.k = "repr" -> DumpLen(v.c.of))
         [] v.t = "list" -> 2 + SumSeq(v.l, 1) + Commas(Len(v.l))
         [] v.t = "dict" -> 2 + SumKeys(v.d, DOMAIN v.d) + Commas(Cardinality(DOMAIN v.d))

\* json.dumps(obj): the bare object, no white space around it
Serialize(obj) ==
    [lead |-> 0, trail |-> 0, len |-> DumpLen(PDict(obj)),
     body |-> [b |-> "json", obj |-> obj, place |-> "bare", ok |-> TRUE]]

\* ------------------------------------- response_normalizer: the inputs
S(id) == PStr(Lit(id))
\* objects that already have the shape _coerce_to_schema produces
CanonSteps ==
    {<<>>,
     <<PDict([step |-> PInt(1), action |-> S("a"), details |-> S("")])>>,
     <<PDict([step |-> PInt(7), action |-> S("b"), details |-> S("a")]),
       PDict([step |-> PInt(1), action |-> S("a"), details |-> S("")])>>}
CanonArtifacts ==
    {<<>>,
     <<PDict([type |-> S("file"), path |-> S("a")])>>,
     <<PDict([type |-> S("docs"), path |-> S("b")]),
       PDict([type |-> S("file"), path |-> S("a")])>>}
CanonRisks == {<<>>, <<PDict([risk |-> S("b"), mitigation |-> S("")]),
                       PDict([risk |-> S("a"), mitigation |-> S("b")])>>}
CanonNext == {<<>>, <<S("a")>>, <<S("b"), S("a")>>}
Canonical ==
    {[title |-> S(ti), summary |-> S(su), steps |-> PList(st), artifacts |-> PList(ar),
      risks |-> PList(ri), next |-> PList(ne)] :
        ti \in {"", "a"}, su \in {"", "b"}, st \in CanonSteps, ar \in CanonArtifacts,
        ri \in CanonRisks, ne \in CanonNext}

\* objects that do not: fields absent, null, of the wrong type, lists with items of
\* every kind, alternative key names
EmptyDict == [k \in {} |-> PNone]
LooseObjects ==
    {EmptyDict,
     [title |-> PNone, steps |-> S("a")],
     [title |-> PInt(3), description |-> S("b")],
     [summary |-> PList(<<S("a")>>), steps |-> PNone, artifacts |-> PDict([path |-> S("a")]),
      risks |-> PInt(2), next |-> PNone],
     [steps |-> PList(<<S("a"), PInt(3), PDict([name |-> S("b"), detail |-> S("a")]),
                         PDict([step |-> S("b"), action |-> PInt(1), description |-> PNone])>>)],
     [artifacts |-> PList(<<S("a"), PNone, PDict([path |-> PInt(4)])>>)],
     [risks |-> PList(<<PInt(1), S("a"), PDict([risk |-> PNone])>>)],
     [title |-> S("a"), next |-> S("b")],
     [next |-> PList(<<PInt(1), PNone, S("a"), PList(<<>>)>>)]}

Places == {"bare", "fenced", "embedded"}
PlacePad(place) == CASE place = "bare" -> 0 [] place = "fenced" -> 11 [] place = "embedded" -> 60
ProseLens == {0, 5, 80, 81}
ProseTexts ==
    {[lead |-> l, trail |-> tr, len |-> n, body |-> [b |-> "prose"]] :
        l \in 0..1, tr \in 0..1, n \in ProseLens}
\* a malformed object is one character longer (a trailing comma)
JsonTexts ==
    {[lead |-> l, trail |-> 0,
      len |-> DumpLen(PDict(o)) + PlacePad(pl) + (IF ok THEN 0 ELSE 1),
      body |-> [b |-> "json", obj |-> o, place |-> pl, ok |-> ok]] :
        l \in 0..1, o \in LooseObjects, pl \in Places, ok \in BOOLEAN}
Texts == ProseTexts \cup JsonTexts

\* ------------------------------------------- the text of an exception
\* ai_router.PROVIDERS / the provider's `format`: how _call_provider sends the call
provider_format(prov) ==
    CASE prov.name = "gemini_flash" -> "gemini"
      [] prov.name = "claude" -> "anthropic"
      [] OTHER -> "openai"

\* _call_async 210-220, _call_anthropic 258-262: the gemini format appends
\* ?key=<key> to the url, the others send the key in a header
key_in_url(prov) == provider_format(prov) = "gemini"

\* what the awaited call can raise: a transport error, or the HTTPStatusError of
\* raise_for_status, whose text is
\*   Client error '400 Bad Request' for url '<url>'   (Server error for 5xx)
Excs == {"transport", "status_400", "status_429", "status_503"}

\* the place of the key in f"[{prov_name}] {e}" (f"[escalation:{prov_name}] {e}" is 11
\* longer), 0 when the text has no key: the characters before it are the prefix, the
\* words of the status and the url up to ?key=
key_place(prov, exc, phase) ==
    IF exc = "transport" \/ ~key_in_url(prov) THEN 0
    ELSE (CASE exc = "status_400" -> 149
            [] exc = "status_429" -> 155
            [] exc = "status_503" -> 157)
         + (IF phase = "base" THEN 0 ELSE 11)

ERROR_LOG_LEN == 200

\* lines 480-503 on the texts: the result carries error_msg whole, the usage record
\* its first 200 characters
secret_after(sec, r, st) ==
    IF st.pc = "done" /\ st.result.provider = "" /\ st.last_error # NoError
    THEN [sec EXCEPT !.result[r] = sec.last_error[r] > 0,
                     !.usage = @ \/ (sec.last_error[r] > 0 /\ sec.last_error[r] <= ERROR_LOG_LEN)]
    ELSE [sec EXCEPT !.result[r] = FALSE]

\* --------------------------------------- route(): the candidate chain
\* line 315: the chain configured for the task class, or the default
configured_chain(task_class) ==
    IF task_class \in DOMAIN config.routing_chain
    THEN config.routing_chain[task_class]
    ELSE <<"groq", "gemini_flash">>

\* the chain with the premium providers put in front and nothing taken out
candidate_chain_PrependOnly(task_class, priority) ==
    LET IsPremium(p) == p.tier = "premium"
        premium_provs == Names(SelectSeq(providers, IsPremium))
    IN IF priority = "critical"
       THEN premium_provs \o configured_chain(task_class)
       ELSE configured_chain(task_class)

\* lines 315-320: with priority critical the premium providers come first
candidate_chain(task_class, priority) ==
    LET IsPremium(p) == p.tier = "premium"
        premium_provs == Names(SelectSeq(providers, IsPremium))
        NotPremium(c) == ~InSeq(c, premium_provs)
    IN IF priority = "critical"
       THEN premium_provs \o SelectSeq(configured_chain(task_class), NotPremium)
       ELSE configured_chain(task_class)

\* ------------------------------------------------------- initial values
NormIdle == [called |-> FALSE]
NoSecret == [last_error |-> [r \in Reqs |-> 0], result |-> [r \in Reqs |-> FALSE],
             log |-> FALSE, usage |-> FALSE]

\* ------------------------------------------ agent lifecycle (core/state_machine.py)
\* A0001 is the master agent, A0002 an agent of role "general".
AgentIds == {"A0001", "A0002"}
AgentList == <<"A0001", "A0002">>
UnknownAgent == "A9999"

role_of(agent_id) == IF agent_id = "A0001" THEN "master_controller" ELSE "general"

VALID_STATES == {"online", "dormant", "suspended", "training", "error", "terminated"}
InvalidState == "paused"

TRANSITIONS ==
    [online     |-> {"dormant", "suspended", "training", "error", "terminated"},
     dormant    |-> {"online", "suspended", "terminated"},
     suspended  |-> {"online", "terminated"},
     training   |-> {"online", "error", "terminated"},
     error      |-> {"online", "suspended", "terminated"},
     terminated |-> {}]

consecutive_errors_max == 3

valid_statuses == {"online", "dormant", "suspended", "training", "error"}

\* The profile create_agent writes: no consecutive_errors key, read as 0.
NewProfile(role) ==
    [status |-> "online", consecutive_errors |-> 0, role |-> role, dormant_since |-> FALSE]

NoCall == [via |-> "", agent |-> "", requested |-> "", success |-> FALSE,
           new_state |-> "", nth |-> 0]

NoAgents ==
    [profile  |-> [a \in AgentIds |-> NewProfile(role_of(a))],
     registry |-> [a \in AgentIds |-> "online"],
     row      |-> [a \in AgentIds |-> 0],
     last     |-> NoCall]

\* The branch of transition for new_state = "error": the counter goes up by one and the
\* agent is suspended, the counter reset, when it reaches consecutive_errors_max.
enter_error_Late(profile) ==
    LET error_count == profile.consecutive_errors + 1
    IN IF error_count > consecutive_errors_max
       THEN [profile EXCEPT !.status = "suspended", !.consecutive_errors = 0]
       ELSE [profile EXCEPT !.status = "error", !.consecutive_errors = error_count]

enter_error(profile) ==
    LET error_count == profile.consecutive_errors + 1
    IN IF error_count >= consecutive_errors_max
       THEN [profile EXCEPT !.status = "suspended", !.consecutive_errors = 0]
       ELSE [profile EXCEPT !.status = "error", !.consecutive_errors = error_count]

\* transition(agent_id, new_state) on the profile loaded: whether it succeeded, whether
\* the profile was saved, the profile after it and the state it reports.
transition(profile, new_state) ==
    LET old_state == profile.status
        refused == [success |-> FALSE, saved |-> FALSE, profile |-> profile,
                    old_state |-> old_state, new_state |-> new_state]
    IN IF new_state \notin VALID_STATES THEN refused
       ELSE IF old_state = new_state
       THEN [refused EXCEPT !.success = TRUE]
       ELSE IF new_state \notin TRANSITIONS[old_state] THEN refused
       ELSE IF profile.role = "master_controller" /\ new_state \in {"suspended", "terminated"}
       THEN refused
       ELSE LET after ==
                  IF new_state = "dormant"
                  THEN [profile EXCEPT !.status = new_state, !.dormant_since = TRUE]
                  ELSE IF new_state = "online" /\ old_state = "dormant"
                  THEN [profile EXCEPT !.status = new_state, !.dormant_since = FALSE]
                  ELSE IF new_state = "error" THEN enter_error(profile)
                  ELSE IF new_state = "online"
                  THEN [profile EXCEPT !.status = new_state, !.consecutive_errors = 0]
                  ELSE [profile EXCEPT !.status = new_state]
            IN [success |-> TRUE, saved |-> TRUE, profile |-> after,
                old_state |-> old_state, new_state |-> after.status]

\* The entries into error in a row after a call of transition: an entry adds one, the
\* third one, a suspension by transition itself and a return to online start a new row.
row_after(row, res, requested) ==
    IF res.saved /\ requested = "error"
    THEN IF row + 1 >= 3 \/ res.new_state = "suspended" THEN 0 ELSE row + 1
    ELSE IF res.saved /\ res.new_state = "online" THEN 0
    ELSE row

called(st, agent_id, requested) ==
    LET res == transition(st.profile[agent_id], requested)
    IN [profile  |-> [st.profile EXCEPT ![agent_id] = res.profile],
        registry |-> IF res.saved THEN [st.registry EXCEPT ![agent_id] = res.new_state]
                     ELSE st.registry,
        row      |-> [st.row EXCEPT ![agent_id] = row_after(@, res, requested)],
        last     |-> [via |-> "transition", agent |-> agent_id, requested |-> requested,
                      success |-> res.success, new_state |-> res.new_state,
                      nth |-> IF res.saved /\ requested = "error"
                              THEN st.row[agent_id] + 1 ELSE 0]]

Transition(agent_id, new_state) ==
    /\ agents' = IF agent_id \in AgentIds
                 THEN called(agents, agent_id, new_state)
                 ELSE [agents EXCEPT !.last = [via |-> "transition", agent |-> agent_id,
                                               requested |-> new_state, success |-> FALSE,
                                               new_state |-> new_state, nth |-> 0]]
    /\ UNCHANGED <<now, today, environ, config, providers, provider_failures, daily_spend,
                   monthly_spend, usage_log, req, disp, hist, budget_probe, sessions,
                   norm, secret>>

\* command_engine._exec_set_status: the status is written into the profile and the
\* registry as given; nothing else of the profile is touched.
SetStatus(agent_id, status) ==
    /\ agent_id \in AgentIds
    /\ status \in valid_statuses
    /\ agents' = [agents EXCEPT !.profile[agent_id].status = status,
                                !.registry[agent_id] = status,
                                !.last = [via |-> "set_status", agent |-> agent_id,
                                          requested |-> status, success |-> TRUE,
                                          new_state |-> status, nth |-> 0]]
    /\ UNCHANGED <<now, today, environ, config, providers, provider_failures, daily_spend,
                   monthly_spend, usage_log, req, disp, hist, budget_probe, sessions,
                   norm, secret>>

\* run_watchdog over the agents from position i on; over_threshold holds the agents
\* whose learning.error_rate exceeds error_rate_threshold.
RECURSIVE watchdog_from(_, _, _)
watchdog_from(st, i, over_threshold) ==
    IF i > Len(AgentList) THEN st
    ELSE LET aid == AgentList[i]
             profile == st.profile[aid]
         IN IF profile.role = "master_controller"
            THEN watchdog_from(st, i + 1, over_threshold)
            ELSE IF profile.status = "online" /\ aid \in over_threshold
            THEN watchdog_from(called(st, aid, "error"), i + 1, over_threshold)
            ELSE watchdog_from(st, i + 1, over_threshold)

RunWatchdog(over_threshold) ==
    /\ agents' = watchdog_from(agents, 1, over_threshold)
    /\ UNCHANGED <<now, today, environ, config, providers, provider_failures, daily_spend,
                   monthly_spend, usage_log, req, disp, hist, budget_probe, sessions,
                   norm, secret>>


Init ==
    /\ now = 1
    /\ today = 1
    /\ environ \in SUBSET KeyEnvs
    /\ config \in ConfigSet
    /\ providers = build_provider_registry(config)
    /\ provider_failures = [k \in FailKeys |-> 0]
    /\ daily_spend = [d \in Days |-> 0]
    /\ monthly_spend = [m \in Months |-> 0]
    /\ usage_log = <<>>
    /\ req = [r \in Reqs |-> IdleReq]
    /\ disp = [k \in FailKeys |-> "any"]
    /\ hist = [k \in FailKeys |-> [last_fail |-> 0, failed_since_ok |-> FALSE]]
    /\ budget_probe = [tier |-> "", allowed |-> TRUE, reason |-> ""]
    /\ sessions = [sid \in SessionIds |-> NoSession]
    /\ norm = NormIdle
    /\ secret = NoSecret
    /\ agents = NoAgents

\* route(task_class, prompt, priority=..., require_structured=...) up to its first call
RouteCall(r, task_class, priority, require_structured, prompt_len, sid, sent_len) ==
    /\ req[r].pc = "idle"
    /\ LET chain == candidate_chain(task_class, priority)
           st0 == [IdleReq EXCEPT !.started_with = Settings(config),
                                  !.session = sid, !.sent_len = sent_len,
                                  !.task_class = task_class, !.priority = priority,
                                  !.require_structured = require_structured,
                                  !.prompt_len = prompt_len, !.chain = chain,
                                  !.escalation_cfg =
                                      [schema_mismatch_threshold |-> config.schema_mismatch_threshold,
                                       consecutive_fail_threshold |-> config.consecutive_fail_threshold]]
           st1 == ScanBase(st0, 1, provider_failures, daily_spend, monthly_spend, now)
       IN /\ req' = [req EXCEPT ![r] = st1]
          /\ usage_log' = log_usage(usage_log, r, st1)
          /\ secret' = secret_after([secret EXCEPT !.last_error[r] = 0], r, st1)
    /\ sessions' = IF sid = "" THEN sessions
                   ELSE [sessions EXCEPT ![sid] = stored(@, "user")]
    /\ UNCHANGED <<now, today, environ, config, providers, provider_failures,
                   daily_spend, monthly_spend, disp, hist, budget_probe, norm, agents>>

\* route(task_class, prompt, priority=..., require_structured=...): the messages are
\* built from the prompt
RouteStart(r, task_class, priority, require_structured, prompt_len) ==
    RouteCall(r, task_class, priority, require_structured, prompt_len, "", prompt_len)

\* route_chat(session_id, user_message, system_prompt, task_class), lines 552-559:
\* the user message is stored, and route is called with the message list and
\* without a prompt
RouteChat(r, sid, task_class, user_len) ==
    RouteCall(r, task_class, "normal", FALSE, 0, sid, user_len)

\* the awaited _call_provider raises exc: lines 410-424 in the base loop (which
\* also hands the text to logger.warning), 474-478 in the escalation loop
CallRaises(r, exc) ==
    /\ req[r].pc = "calling"
    /\ LET st == req[r]
           prov == get_provider(CurrentName(st))
       IN /\ disp[FailKey(prov)] \in {"any", "error"}
          /\ provider_failures' = mark_failed(provider_failures, FailKey(prov), now)
          /\ hist' = [hist EXCEPT ![FailKey(prov)] = [last_fail |-> now, failed_since_ok |-> TRUE]]
          /\ LET st2 == IF st.phase = "base"
                        THEN ScanBase(HandleErrorBase(st, prov), st.idx + 1,
                                      provider_failures', daily_spend, monthly_spend, now)
                        ELSE ScanEsc(HandleErrorEsc(st, prov), st.idx + 1,
                                     provider_failures', daily_spend, monthly_spend, now)
                 place == key_place(prov, exc, st.phase)
                 logged == [secret EXCEPT !.last_error[r] = place,
                                          !.log = @ \/ (st.phase = "base" /\ place > 0)]
             IN /\ req' = [req EXCEPT ![r] = st2]
                /\ usage_log' = log_usage(usage_log, r, st2)
                /\ secret' = secret_after(logged, r, st2)
    /\ UNCHANGED <<now, today, environ, config, providers, daily_spend, monthly_spend,
                   disp, budget_probe,
                   sessions, norm, agents>>

\* the awaited _call_provider raises an error that is no HTTP status
CallFails(r) == CallRaises(r, "transport")

\* the awaited _call_provider returns a reply
CallReturns(r, reply) ==
    /\ req[r].pc = "calling"
    /\ LET st == req[r]
           prov == get_provider(CurrentName(st))
           cost_usd == EstimatedCost(prov, reply, st.prompt_len)
       IN /\ disp[FailKey(prov)] \in {"any", reply}
          /\ provider_failures' = pop_failure(provider_failures, FailKey(prov))
          /\ hist' = [hist EXCEPT ![FailKey(prov)].failed_since_ok = FALSE]
          /\ daily_spend' = IF prov.cost_per_1k_tokens > 0
                            THEN record_cost(daily_spend, today, cost_usd) ELSE daily_spend
          /\ monthly_spend' = IF prov.cost_per_1k_tokens > 0
                              THEN record_cost(monthly_spend, MonthOf(today), cost_usd)
                              ELSE monthly_spend
          /\ LET st1 == IF st.phase = "base" THEN HandleReplyBase(st, prov, reply)
                        ELSE HandleReplyEsc(st, prov, reply)
                 st2 == IF st1.pc = "done" THEN st1
                        ELSE ScanBase(st1, st.idx + 1, provider_failures',
                                      daily_spend', monthly_spend', now)
             IN /\ req' = [req EXCEPT ![r] = st2]
                /\ usage_log' = log_usage(usage_log, r, st2)
                /\ secret' = secret_after(secret, r, st2)
                /\ sessions' = chat_reply(sessions, st2)
    /\ UNCHANGED <<now, today, environ, config, providers, disp, budget_probe, norm, agents>>

\* the caller takes the result; the coroutine is gone
Return(r) ==
    /\ req[r].pc = "done"
    /\ req' = [req EXCEPT ![r] = IdleReq]
    /\ UNCHANGED <<now, today, environ, config, providers, provider_failures, daily_spend,
                   monthly_spend, usage_log, disp, hist, budget_probe,
                   sessions, norm, secret, agents>>

\* the clock advances
Tick ==
    /\ now < MaxTime
    /\ now' = now + 1
    /\ UNCHANGED <<today, environ, config, providers, provider_failures, daily_spend,
                   monthly_spend, usage_log, req, disp, hist, budget_probe,
                   sessions, norm, secret, agents>>

\* the calendar date changes
NewDay ==
    /\ today < MaxDay
    /\ today' = today + 1
    /\ UNCHANGED <<now, environ, config, providers, provider_failures, daily_spend,
                   monthly_spend, usage_log, req, disp, hist, budget_probe,
                   sessions, norm, secret, agents>>

\* a credential variable is removed from the process environment
UnsetEnv(k) ==
    /\ k \in environ
    /\ environ' = environ \ {k}
    /\ UNCHANGED <<now, today, config, providers, provider_failures, daily_spend,
                   monthly_spend, usage_log, req, disp, hist, budget_probe,
                   sessions, norm, secret, agents>>

\* ------------------------------------------------ Spec: one route request
\* every configuration and credential set, every input of route(), one request
\* normalize(raw_text) on a text
NormalizeText(raw_text) ==
    /\ norm' = [called |-> TRUE, kind |-> "text", text |-> raw_text, from |-> PNone,
                out |-> normalize_text(raw_text)]
    /\ UNCHANGED <<now, today, environ, config, providers, provider_failures, daily_spend,
                   monthly_spend, usage_log, req, disp, hist, budget_probe, sessions, secret, agents>>

\* normalize(json.dumps(obj))
NormalizeObject(obj) ==
    /\ norm' = [called |-> TRUE, kind |-> "object", text |-> Serialize(obj),
                from |-> PDict(obj), out |-> normalize_text(Serialize(obj))]
    /\ UNCHANGED <<now, today, environ, config, providers, provider_failures, daily_spend,
                   monthly_spend, usage_log, req, disp, hist, budget_probe, sessions, secret, agents>>

\* normalize(json.dumps(the six fields of the last result))
Renormalize ==
    /\ norm.called
    /\ norm.kind # "again"
    /\ LET obj == SixFields(norm.out)
       IN norm' = [called |-> TRUE, kind |-> "again", text |-> Serialize(obj),
                   from |-> PDict(obj), out |-> normalize_text(Serialize(obj))]
    /\ UNCHANGED <<now, today, environ, config, providers, provider_failures, daily_spend,
                   monthly_spend, usage_log, req, disp, hist, budget_probe, sessions, secret, agents>>

NoneInFlight == \A q \in Reqs : req[q].pc = "idle"

Next ==
    \/ \E tc \in TaskClasses, pri \in Priorities, rs \in BOOLEAN, pl \in PromptLens :
          /\ NoneInFlight
          /\ usage_log = <<>>
          /\ RouteStart(1, tc, pri, rs, pl)
    \/ \E r \in Reqs : CallFails(r)
    \/ \E r \in Reqs, reply \in Replies : CallReturns(r, reply)
    \/ \E r \in Reqs : Return(r)
    \/ Tick

Spec == Init /\ [][Next]_vars


\* ------------------------------------- SpecSeq: requests one after another
\* a later request meets the failure records and the spend the earlier ones left
InitSeq ==
    /\ Init
    /\ config = BaseConfig
    /\ environ = KeyEnvs

NextSeq ==
    \/ \E tc \in {"general", "coding", "high_precision"} :
          /\ NoneInFlight
          /\ Len(usage_log) < MaxRequests
          /\ RouteStart(1, tc, "normal", FALSE, 4)
    \/ \E r \in Reqs : CallFails(r)
    \/ \E r \in Reqs, reply \in Replies : CallReturns(r, reply)
    \/ \E r \in Reqs : Return(r)
    \/ Tick
    \/ UnsetEnv("GROQ_API_KEY")

SpecSeq == InitSeq /\ [][NextSeq]_vars

\* ------------------------------ SpecLeak: calls that fail in every way
NextLeak ==
    \/ \E tc \in {"general", "coding", "high_precision"} :
          /\ NoneInFlight
          /\ Len(usage_log) < MaxRequests
          /\ RouteStart(1, tc, "normal", FALSE, 4)
    \/ \E r \in Reqs, exc \in Excs : CallRaises(r, exc)
    \/ \E r \in Reqs, reply \in Replies : CallReturns(r, reply)
    \/ \E r \in Reqs : Return(r)
    \/ Tick

SpecLeak == InitSeq /\ [][NextLeak]_vars

\* ================================================================ claims
Done(r) == req[r].pc = "done"
Res(r) == req[r].result
IsSuccess(r) == Res(r).error = NoError

\* C7 (as stated): every returned result has no error if and only if its reply is
\* non-empty and its provider and model are set.
C7_Original ==
    \A r \in Reqs : Done(r) =>
        (IsSuccess(r) <=> (Res(r).reply # "" /\ Res(r).provider # "" /\ Res(r).model # ""))

\* C7 (amended): every returned result has no error if and only if its provider is
\* set; a result without error also has its model set and carries the reply the
\* provider returned, which may be empty; a result with an error has an empty
\* reply, provider and model.
C7_ResultShape ==
    \A r \in Reqs : Done(r) =>
        /\ IsSuccess(r) <=> Res(r).provider # ""
        /\ IsSuccess(r) => Res(r).model # ""
        /\ ~IsSuccess(r) => Res(r).reply = "" /\ Res(r).provider = "" /\ Res(r).model = ""
                            /\ Res(r).error.kind \in {"provider", "escalation", "schema", "no_provider"}

C7_Witness ==
    \E r \in Reqs : Done(r) /\ IsSuccess(r) /\ Res(r).reply = "" /\ Res(r).provider # ""



\* ------------------------------- SpecConc: two requests at the same time
\* two coroutines of route() interleave at their provider calls
InFlight == Cardinality({r \in Reqs : req[r].pc # "idle"})

NextConc ==
    \/ \E r \in Reqs :
          /\ Len(usage_log) + InFlight < MaxRequests
          /\ RouteStart(r, "general", "normal", FALSE, 4)
    \/ \E r \in Reqs : CallFails(r)
    \/ \E r \in Reqs, reply \in Replies : CallReturns(r, reply)
    \/ \E r \in Reqs : Return(r)
    \/ Tick
    \/ UnsetEnv("GROQ_API_KEY")

SpecConc == InitSeq /\ [][NextConc]_vars

\* --------------------- SpecScripted: providers with a fixed behaviour
\* every provider either answers each call with prose or raises on each call
InitScripted ==
    /\ now = 1
    /\ today = 1
    /\ environ = KeyEnvs
    /\ config = BaseConfig
    /\ providers = build_provider_registry(config)
    /\ provider_failures = [k \in FailKeys |-> 0]
    /\ daily_spend = [d \in Days |-> 0]
    /\ monthly_spend = [m \in Months |-> 0]
    /\ usage_log = <<>>
    /\ req = [r \in Reqs |-> IdleReq]
    /\ disp \in [FailKeys -> {"prose", "error"}]
    /\ hist = [k \in FailKeys |-> [last_fail |-> 0, failed_since_ok |-> FALSE]]
    /\ budget_probe = [tier |-> "", allowed |-> TRUE, reason |-> ""]
    /\ sessions = [sid \in SessionIds |-> NoSession]
    /\ norm = NormIdle
    /\ secret = NoSecret
    /\ agents = NoAgents

SpecScripted == InitScripted /\ [][Next]_vars

\* ------------------------- SpecReload: the configuration file is re-read
\* the contents the configuration file can have when reload_config() reads it
ReloadSet ==
    { BaseConfig,
      [BaseConfig EXCEPT !.providers = SubSeq(YamlProviders, 1, 1)],
      [BaseConfig EXCEPT !.cooldown_sec = 2, !.daily_limit_usd = 1] }

\* reload_config(), lines 91-94: _config is replaced, _providers is not touched
ReloadConfig(cfg) ==
    /\ cfg # config
    /\ config' = cfg
    /\ UNCHANGED <<now, today, environ, providers, provider_failures, daily_spend,
                   monthly_spend, usage_log, req, disp, hist, budget_probe,
                   sessions, norm, secret, agents>>

NextReload ==
    \/ \E tc \in {"general", "high_precision"}, pri \in Priorities :
          /\ NoneInFlight
          /\ usage_log = <<>>
          /\ RouteStart(1, tc, pri, FALSE, 4)
    \/ \E r \in Reqs : CallFails(r)
    \/ \E r \in Reqs, reply \in Replies : CallReturns(r, reply)
    \/ \E r \in Reqs : Return(r)
    \/ Tick
    \/ \E cfg \in ReloadSet : ReloadConfig(cfg)

SpecReload == InitSeq /\ [][NextReload]_vars

\* ------------------------------------------ SpecSession: chat histories
\* add_message(session_id, role, content), after get_session created the entry
AddMessage(sid, role) ==
    /\ sessions[sid].appended < MaxAppends
    /\ stored(sessions[sid], role).unanswered <= MaxUnanswered
    /\ sessions' = [sessions EXCEPT ![sid] = stored(@, role)]
    /\ UNCHANGED <<now, today, environ, config, providers, provider_failures, daily_spend,
                   monthly_spend, usage_log, req, disp, hist, budget_probe, norm, secret, agents>>

\* clear_session(session_id)
ClearSession(sid) ==
    /\ sessions[sid].exists
    /\ sessions' = [sessions EXCEPT ![sid] = NoSession]
    /\ req' = [r \in Reqs |-> IF req[r].pc # "idle" /\ req[r].session = sid
                              THEN [req[r] EXCEPT !.cleared = TRUE] ELSE req[r]]
    /\ UNCHANGED <<now, today, environ, config, providers, provider_failures, daily_spend,
                   monthly_spend, usage_log, disp, hist, budget_probe, norm, secret, agents>>

\* a reply is stored after the user message it answers (route_chat, lines 554-562)
NextSession ==
    \/ \E sid \in SessionIds : AddMessage(sid, "user")
    \/ \E sid \in SessionIds :
          /\ sessions[sid].messages # <<>>
          /\ sessions[sid].messages[Len(sessions[sid].messages)].role = "user"
          /\ AddMessage(sid, "assistant")
    \/ \E sid \in SessionIds : ClearSession(sid)

SpecSession == InitSeq /\ [][NextSession]_vars

\* ------------------------------------------- SpecChat: route_chat calls
\* one chat call at a time, or a direct call of route; the session can be cleared
\* while the call waits for a provider
UserLens == {4, 8}
NextChat ==
    \/ \E sid \in SessionIds, tc \in {"general", "coding"}, ul \in UserLens :
          /\ NoneInFlight
          /\ Len(usage_log) < MaxRequests
          /\ RouteChat(1, sid, tc, ul)
    \/ \E tc \in {"general", "coding"}, pl \in PromptLens :
          /\ NoneInFlight
          /\ Len(usage_log) < MaxRequests
          /\ RouteStart(1, tc, "normal", FALSE, pl)
    \/ \E r \in Reqs : CallFails(r)
    \/ \E r \in Reqs, reply \in Replies : CallReturns(r, reply)
    \/ \E r \in Reqs : Return(r)
    \/ \E sid \in SessionIds : ClearSession(sid)
    \/ Tick

SpecChat == InitSeq /\ [][NextChat]_vars

\* ------------------------------------ SpecBudget: the ledger and its guard
Tiers == {"free", "low_cost", "premium"}

\* the amounts route() hands to _record_cost
Costs ==
    {EstimatedCost(providers[i], reply, pl) :
        i \in 1..Len(providers), reply \in Replies, pl \in PromptLens} \ {0}

\* _record_cost that writes the day's entry only
RecordCost_DailyOnly(cost_usd) ==
    /\ monthly_spend[MonthOf(today)] + cost_usd <= MaxSpend
    /\ daily_spend' = record_cost(daily_spend, today, cost_usd)
    /\ UNCHANGED <<now, today, environ, config, providers, provider_failures, monthly_spend,
                   usage_log, req, disp, hist, budget_probe,
                   sessions, norm, secret, agents>>

\* _record_cost(cost_usd), lines 156-161
RecordCost(cost_usd) ==
    /\ monthly_spend[MonthOf(today)] + cost_usd <= MaxSpend
    /\ daily_spend' = record_cost(daily_spend, today, cost_usd)
    /\ monthly_spend' = record_cost(monthly_spend, MonthOf(today), cost_usd)
    /\ UNCHANGED <<now, today, environ, config, providers, provider_failures,
                   usage_log, req, disp, hist, budget_probe,
                   sessions, norm, secret, agents>>

\* _check_budget(tier), lines 164-184; the answer is kept in budget_probe
BudgetCheck(tier) ==
    /\ budget_probe' = [tier |-> tier,
                        allowed |-> check_budget(tier, daily_spend, monthly_spend).allowed,
                        reason |-> check_budget(tier, daily_spend, monthly_spend).reason]
    /\ UNCHANGED <<now, today, environ, config, providers, provider_failures, daily_spend,
                   monthly_spend, usage_log, req, disp, hist,
                   sessions, norm, secret, agents>>

InitBudget ==
    /\ Init
    /\ environ = KeyEnvs
    /\ config \in {BaseConfig, [BaseConfig EXCEPT !.block_on_exceed = FALSE]}

NextBudget ==
    \/ \E c \in Costs : RecordCost(c)
    \/ \E tier \in Tiers : BudgetCheck(tier)
    \/ NewDay

\* ------------------------------------------ the agent lifecycle on its own
NextLifecycle ==
    \/ \E agent_id \in AgentIds \cup {UnknownAgent},
          new_state \in VALID_STATES \cup {InvalidState} : Transition(agent_id, new_state)
    \/ \E agent_id \in AgentIds, status \in valid_statuses : SetStatus(agent_id, status)
    \/ \E over_threshold \in SUBSET AgentIds : RunWatchdog(over_threshold)

SpecLifecycle == InitSeq /\ [][NextLifecycle]_vars

\* ------------------------------------------ the normalizer on its own
NextNormalize ==
    \/ \E raw_text \in Texts : NormalizeText(raw_text)
    \/ \E obj \in Canonical : NormalizeObject(obj)
    \/ Renormalize

SpecNormalize == InitSeq /\ [][NextNormalize]_vars

SpecBudget == InitBudget /\ [][NextBudget]_vars

\* ---------------------------------------------------- helpers of the claims
Visited(r) == req[r].visited
LastVisit(r) == Visited(r)[Len(Visited(r))]
FromBase(r) == Len(Visited(r)) > 0 /\ LastVisit(r).phase = "base"
BaseFailures(r) ==
    Cardinality({i \in 1..Len(Visited(r)) :
                    Visited(r)[i].phase = "base" /\ Visited(r)[i].status = "error"})
SchemaFailovers(r, upto) ==
    Cardinality({i \in 1..upto : Visited(r)[i].status = "schema_failover"})
ProviderSet == {providers[i] : i \in 1..Len(providers)}
FreeLackCredentials == \A p \in ProviderSet : p.tier = "free" => p.key_env \notin environ
PremiumOf(r) == {p \in ProviderSet : p.tier = "premium" /\ p.key_env \in environ}

C4_EscalationTried ==
    \A r \in Reqs :
        (Done(r) /\ BaseFailures(r) >= req[r].escalation_cfg.consecutive_fail_threshold
                 /\ ~(IsSuccess(r) /\ FromBase(r)))
        => /\ \A p \in ProviderSet :
                (p.tier = "premium" /\ ~InSeq(p.name, req[r].chain))
                => /\ InSeq(p.name, req[r].escalation_chain)
                   /\ \/ IsSuccess(r)
                      \/ \E i \in 1..Len(Visited(r)) :
                            /\ Visited(r)[i].phase = "esc" /\ Visited(r)[i].name = p.name
                            /\ Visited(r)[i].status \in {"error", "unavailable", "budget_denied"}
           /\ IsSuccess(r) => /\ Res(r).escalated
                              /\ LastVisit(r).phase = "esc"
                              /\ LastVisit(r).name = Res(r).provider

C4_Witness ==
    \E r \in Reqs :
        /\ Done(r) /\ IsSuccess(r) /\ Res(r).escalated
        /\ BaseFailures(r) >= req[r].escalation_cfg.consecutive_fail_threshold
        /\ LastVisit(r).phase = "esc" /\ Res(r).provider = "claude"
        /\ ~InSeq("claude", req[r].chain)

\* C6 (as stated): with structured-response enforcement on, when some provider
\* returned a reply that only failed schema validation and no candidate produced a
\* valid reply, the result is that reply with normalized valid = false.
C6_Original ==
    \A r \in Reqs :
        (Done(r) /\ req[r].require_structured
                 /\ (\E i \in 1..Len(Visited(r)) : Visited(r)[i].status = "schema_failover")
                 /\ ~(IsSuccess(r) /\ Res(r).normalized = "valid"))
        => IsSuccess(r) /\ Res(r).normalized = "invalid"

\* C6 (amended): with structured-response enforcement on, a reply is discarded only
\* when it is a base-chain reply whose failed validation brings the count of
\* consecutive invalid replies to schema_mismatch_threshold; every other reply that
\* fails validation is returned as a success with normalized valid = false, and a
\* request whose replies were all discarded ends in the empty-reply failure.
C6_DegradedReply ==
    \A r \in Reqs : req[r].require_structured =>
        /\ \A i \in 1..Len(Visited(r)) :
              Visited(r)[i].status = "schema_failover"
              => /\ Visited(r)[i].phase = "base"
                 /\ SchemaFailovers(r, i) >= req[r].escalation_cfg.schema_mismatch_threshold
        /\ (Done(r) /\ IsSuccess(r)) => /\ LastVisit(r).status = "ok"
                                        /\ Res(r).normalized = normalize(Res(r).reply)
        /\ (Done(r) /\ ~IsSuccess(r)) => Res(r).reply = "" /\ Res(r).normalized = "none"

C6_Witness ==
    \E r \in Reqs :
        /\ Done(r) /\ req[r].require_structured /\ IsSuccess(r)
        /\ Res(r).normalized = "invalid" /\ Res(r).reply = "prose"

\* C8: within one request no provider is called twice: the calls made carry
\* pairwise different names, no call of the escalation loop goes to a name of the
\* base chain, and the escalation list holds no name twice.
Called(r) ==
    {i \in 1..Len(Visited(r)) :
        Visited(r)[i].status \in {"calling", "ok", "error", "schema_failover"}}

C8_NoProviderTwice ==
    \A r \in Reqs :
        /\ \A i, j \in Called(r) : Visited(r)[i].name = Visited(r)[j].name => i = j
        /\ \A i \in Called(r) :
              Visited(r)[i].phase = "esc" => ~InSeq(Visited(r)[i].name, req[r].chain)
        /\ \A i, j \in 1..Len(req[r].escalation_chain) :
              req[r].escalation_chain[i] = req[r].escalation_chain[j] => i = j

C8_Witness ==
    \E r \in Reqs :
        /\ Done(r)
        /\ \E i \in 1..Len(Visited(r)) :
              /\ Visited(r)[i].phase = "esc" /\ Visited(r)[i].status = "in_chain"
              /\ \E j \in Called(r) : Visited(r)[j].name = Visited(r)[i].name
        /\ is_provider_available(get_provider("claude"), provider_failures, now)


\* ------------------------------------------ claims checked under SpecSeq
SkipOrFail == {"unregistered", "unavailable", "budget_denied", "error", "in_chain"}
ErrorVisits(r) == {i \in 1..Len(Visited(r)) : Visited(r)[i].status = "error"}
LastErrorVisit(r) ==
    Visited(r)[CHOOSE i \in ErrorVisits(r) : \A j \in ErrorVisits(r) : j <= i]

\* C1: without structured-response enforcement the base chain is walked in order;
\* every candidate before the one in hand was skipped (unregistered, unavailable,
\* budget-denied) or its call raised; the first call that returns ends the request
\* with that candidate as the result's provider, and no candidate after it is called.
C1_FirstReturnWins ==
    \A r \in Reqs : ~req[r].require_structured =>
        LET V == Visited(r) IN
        /\ \A i \in 1..Len(V) :
              /\ i < Len(V) => V[i].status \in SkipOrFail
              /\ V[i].phase = "base" => i <= Len(req[r].chain) /\ V[i].name = req[r].chain[i]
              /\ V[i].status = "ok" => /\ Done(r) /\ IsSuccess(r)
                                       /\ Res(r).provider = V[i].name
              /\ V[i].status = "calling" => req[r].pc = "calling"
        /\ (Done(r) /\ IsSuccess(r)) => Len(V) > 0 /\ V[Len(V)].status = "ok"

C1_Witness ==
    \E r \in Reqs :
        /\ Done(r) /\ ~req[r].require_structured /\ IsSuccess(r) /\ FromBase(r)
        /\ \E i \in 1..Len(Visited(r)) :
              Visited(r)[i].status \in {"unregistered", "unavailable", "budget_denied"}
        /\ ErrorVisits(r) # {}

\* C5: a request in which no call returned ends in a failure result: reply and
\* provider empty, error the error of the last call that raised, or the
\* no-available-provider message when no call was made.
C5_ExhaustedResult ==
    \A r \in Reqs :
        (Done(r) /\ \A i \in 1..Len(Visited(r)) : Visited(r)[i].status \in SkipOrFail)
        => /\ ~IsSuccess(r)
           /\ Res(r).reply = "" /\ Res(r).provider = ""
           /\ IF ErrorVisits(r) = {}
              THEN Res(r).error = [kind |-> "no_provider", prov |-> ""]
              ELSE /\ Res(r).error.prov = LastErrorVisit(r).name
                   /\ Res(r).error.kind = IF LastErrorVisit(r).phase = "base"
                                          THEN "provider" ELSE "escalation"

C5_Witness ==
    \E r \in Reqs :
        /\ Done(r) /\ ~IsSuccess(r) /\ Res(r).escalated
        /\ Res(r).error.kind = "provider"
        /\ \E i \in 1..Len(Visited(r)) :
              /\ Visited(r)[i].phase = "esc"
              /\ Visited(r)[i].status \in {"unavailable", "budget_denied"}

\* C9: a provider is available exactly when its credential is set and it has no
\* failure recorded since its last successful call, or the time since its most
\* recent recorded failure is at least cooldown_sec.
C9_Availability ==
    \A p \in ProviderSet :
        is_provider_available(p, provider_failures, now)
        <=> /\ p.key_env \in environ
            /\ \/ ~hist[FailKey(p)].failed_since_ok
               \/ now - hist[FailKey(p)].last_fail >= config.cooldown_sec

C9_Witness ==
    /\ \E p \in ProviderSet :
          /\ hist[FailKey(p)].failed_since_ok
          /\ now - hist[FailKey(p)].last_fail >= config.cooldown_sec
          /\ is_provider_available(p, provider_failures, now)
    /\ \E p \in ProviderSet :
          /\ hist[FailKey(p)].failed_since_ok
          /\ now - hist[FailKey(p)].last_fail < config.cooldown_sec
          /\ p.key_env \in environ
    /\ \E p \in ProviderSet :
          /\ hist[FailKey(p)].last_fail # 0 /\ ~hist[FailKey(p)].failed_since_ok


\* ------------------------------------- claim checked under SpecScripted
\* the first two candidates of the chain are free-tier providers that answer every
\* call with a reply that fails normalization
FirstTwoInvalid(r) ==
    /\ Len(req[r].chain) >= 2
    /\ \A i \in 1..2 :
          /\ Registered(req[r].chain[i])
          /\ get_provider(req[r].chain[i]).tier = "free"
          /\ disp[FailKey(get_provider(req[r].chain[i]))] = "prose"

\* C3: with structured-response enforcement on and schema_mismatch_threshold 2, when
\* the first two candidates of a request both return replies that fail normalization,
\* the request is not answered by either of them: the second attempt counts as a
\* failover, escalation is triggered, and the loop goes on to further candidates.
C3_SchemaEscalation ==
    \A r \in Reqs :
        (Done(r) /\ req[r].require_structured
                 /\ req[r].escalation_cfg.schema_mismatch_threshold = 2
                 /\ FirstTwoInvalid(r))
        => /\ Res(r).escalated
           /\ Res(r).failover_count >= 1
           /\ Res(r).provider \notin {req[r].chain[1], req[r].chain[2]}

\* ---------------------------------------- claim checked under SpecBudget
PaidTiers == Tiers \ {"free"}
OverCeiling ==
    \/ daily_spend[today] >= config.daily_limit_usd
    \/ monthly_spend[MonthOf(today)] >= config.monthly_limit_usd

\* C10 (as stated): the budget check allows the free tier whatever has been spent and
\* denies a paid tier exactly when the day's spend is at or above the daily ceiling or
\* the month's spend is at or above the monthly ceiling.
C10_Original ==
    /\ check_budget("free", daily_spend, monthly_spend).allowed
    /\ \A tier \in PaidTiers :
          ~check_budget(tier, daily_spend, monthly_spend).allowed <=> OverCeiling

\* C10 (amended): the budget check allows the free tier whatever has been spent and
\* denies a paid tier exactly when block_on_exceed is enabled and the day's spend is
\* at or above the daily ceiling or the month's spend is at or above the monthly
\* ceiling; a check leaves the recorded spend as it was.
C10_BudgetGuard ==
    [][ /\ check_budget("free", daily_spend, monthly_spend).allowed
        /\ \A tier \in PaidTiers :
              ~check_budget(tier, daily_spend, monthly_spend).allowed
              <=> (config.block_on_exceed /\ OverCeiling)
        /\ budget_probe' # budget_probe =>
              /\ daily_spend' = daily_spend /\ monthly_spend' = monthly_spend
              /\ budget_probe'.tier = "free" => budget_probe'.allowed
              /\ budget_probe'.tier \in PaidTiers =>
                    (~budget_probe'.allowed <=> (config.block_on_exceed /\ OverCeiling))
      ]_vars

C10_Witness ==
    /\ budget_probe.tier = "premium" /\ ~budget_probe.allowed
    /\ budget_probe.reason = "monthly"
    /\ daily_spend[today] < config.daily_limit_usd
    /\ monthly_spend[MonthOf(today)] >= config.monthly_limit_usd


\* ------------------------------------------------- ledger and usage log
\* the step is the return of the call request r was waiting for
CallReturned(r) ==
    /\ req[r].pc = "calling" /\ req'[r] # req[r]
    /\ req'[r].visited[Len(req[r].visited)].status \in {"ok", "schema_failover"}
CalledTier(r) == get_provider(CurrentName(req[r])).tier
LedgerChanged == daily_spend' # daily_spend \/ monthly_spend' # monthly_spend

\* C11: a call of a free-tier provider that returns leaves the daily and the monthly
\* ledger as they were; the ledger changes only in a step in which the call of a
\* paid-tier provider returns.
C11_FreeCallsCostNothing ==
    [][ /\ \A r \in Reqs : (CallReturned(r) /\ CalledTier(r) = "free") => ~LedgerChanged
        /\ LedgerChanged => \E r \in Reqs : CallReturned(r) /\ CalledTier(r) # "free"
      ]_vars

C11_Witness ==
    /\ Len(usage_log) = 2
    /\ usage_log[1].success /\ usage_log[1].tier # "free"
    /\ usage_log[2].success /\ usage_log[2].tier = "free"
    /\ Done(1) /\ Res(1).reply = "json" /\ req[1].prompt_len > 0
    /\ daily_spend[today] > 0

\* C12: no entry of the daily or of the monthly ledger ever decreases, and whenever the
\* ledger changes one positive amount is added to the entry of the current day and to
\* the entry of the current month, all other entries staying as they were.
C12_LedgerMonotone ==
    [][ /\ \A d \in Days : daily_spend'[d] >= daily_spend[d]
        /\ \A m \in Months : monthly_spend'[m] >= monthly_spend[m]
        /\ LedgerChanged =>
              \E c \in 1..MaxSpend :
                 /\ daily_spend' = [daily_spend EXCEPT ![today] = @ + c]
                 /\ monthly_spend' = [monthly_spend EXCEPT ![MonthOf(today)] = @ + c]
      ]_vars

C12_Witness ==
    /\ daily_spend[today] > 0
    /\ monthly_spend[MonthOf(today)] > daily_spend[today]

\* C13: a step in which a route invocation reaches its return appends exactly one
\* record to the usage log; the record's success flag is true exactly when the result
\* has no error and its provider is the result's provider; no other step changes the
\* log, and the records already in it stay as they are.
BecomesDone(r) == req[r].pc # "done" /\ req'[r].pc = "done"

TriggeredByFree(r) ==
    /\ req[r].escalated
    /\ \A i \in 1..Len(Visited(r)) :
          (Visited(r)[i].phase = "base" /\ Visited(r)[i].status \in {"error", "schema_failover"})
          => get_provider(Visited(r)[i].name).tier = "free"

\* C20: when escalation is triggered by a candidate of tier free, the escalation list
\* holds every registered low_cost and premium provider that is not part of the base
\* chain, and no free-tier provider.
C20_HigherTiersAppended ==
    \A r \in Reqs : TriggeredByFree(r) =>
        /\ \A p \in ProviderSet :
              (p.tier \in {"low_cost", "premium"} /\ ~InSeq(p.name, req[r].chain))
              => InSeq(p.name, req[r].escalation_chain)
        /\ \A i \in 1..Len(req[r].escalation_chain) :
              get_provider(req[r].escalation_chain[i]).tier # "free"


\* ------------------------------------- claims checked under SpecReload
\* C14: the registry route() resolves names against is the registry built from the
\* configuration in force: after reload_config() a provider added, removed or changed
\* in the configuration is added, removed or changed in the registry.
C14_RegistryFollowsConfig == providers = build_provider_registry(config)

\* C15: whenever a request in flight goes on to further candidates, the cooldown,
\* the budget ceilings and the escalation settings in force are those the request
\* started with.
C15_SettingsOfStart ==
    [][ \A r \in Reqs :
           (req[r].pc = "calling" /\ Len(req'[r].visited) > Len(req[r].visited))
           => Settings(config) = req[r].started_with
      ]_vars


\* ------------------------------------- claim checked under SpecSession
StoredLen(sid) == Len(sessions[sid].messages)

\* C16: after every add_message the session stores at most MAX_HISTORY messages; an
\* add_message either stores one message more or compacts, and a compaction leaves
\* strictly fewer messages than there were before it, the first of them a summary.
C16_HistoryBounded ==
    [][ \A sid \in SessionIds :
           (sessions'[sid] # sessions[sid] /\ sessions'[sid].exists)
           => /\ StoredLen(sid)' <= MAX_HISTORY
              /\ \/ StoredLen(sid)' = StoredLen(sid) + 1
                 \/ /\ StoredLen(sid) + 1 > MAX_HISTORY
                    /\ StoredLen(sid)' < StoredLen(sid) + 1
                    /\ sessions'[sid].messages[1].role = "system"
                    /\ sessions'[sid].messages[1].digest > 0
      ]_vars

C16_Witness ==
    \E sid \in SessionIds :
        /\ StoredLen(sid) = MAX_HISTORY
        /\ sessions[sid].messages[1].role = "system"
        /\ sessions[sid].messages[1].digest = (MAX_HISTORY + 1) \div 2
        /\ sessions[sid].messages[MAX_HISTORY].role = "assistant"

ListFields == {"steps", "artifacts", "risks", "next"}

\* C17: for every input text, normalize returns a record in which title and summary
\* are strings and steps, artifacts, risks and next are lists, none absent and none
\* null; when no JSON can be extracted the summary is the trimmed text, the title
\* its first 80 characters, every list is empty and valid is false.
C17_NormalizeTotal ==
    norm.called =>
        LET out == norm.out
            trimmed == Whole(Strip(norm.text))
        IN /\ {"title", "summary"} \cup ListFields \subseteq DOMAIN out
           /\ out.title.t = "str" /\ out.summary.t = "str"
           /\ \A f \in ListFields : out[f].t = "list"
           /\ extract_json(norm.text) = PNone =>
                /\ out.summary = PStr(trimmed)
                /\ out.title = PStr(Take(trimmed, TITLE_LEN))
                /\ \A f \in ListFields : out[f].l = <<>>
                /\ ~out.valid
\* a long prose text with white space in front was normalized: its title is cut
C17_Witness ==
    /\ norm.called /\ norm.kind = "text"
    /\ norm.text.body.b = "prose" /\ norm.text.lead > 0
    /\ norm.text.len > TITLE_LEN
    /\ norm.out.title.c.upto = TITLE_LEN
    /\ norm.out.summary.c.upto = norm.text.len

\* C18: for every JSON object that already matches the canonical schema, normalize
\* of its serialization returns the six fields equal to the input, list order
\* kept, valid true and no violations; normalizing that output again
\* (re-serialized) gives the same six fields.
C18_RoundTrip ==
    (norm.called /\ norm.kind \in {"object", "again"} /\ norm.from.d \in Canonical) =>
        /\ SixFields(norm.out) = norm.from.d
        /\ norm.out.valid
        /\ norm.out.violations = <<>>
\* the output of a canonical object with two steps, numbered 7 and 1, was normalized again
C18_Witness ==
    /\ norm.called /\ norm.kind = "again" /\ norm.from.d \in Canonical
    /\ Len(norm.out.steps.l) = 2
    /\ norm.out.steps.l[1].d.step = PInt(7)
    /\ Len(norm.out.next.l) = 2
    /\ norm.out.valid

\* C19: for every provider and every outcome of a call, failed calls included, the
\* value of the provider's credential never appears in the error text returned to
\* the caller, in a usage-log record or in a log message.
C19_NoCredentialInText ==
    /\ \A r \in Reqs : ~secret.result[r]
    /\ ~secret.usage
    /\ ~secret.log

\* C21: in every result, retries equals the number of provider calls made during
\* the request that ended in an error, whether the call was made from the base chain
\* or from the escalation list; a candidate that was skipped as unregistered,
\* unavailable or budget-denied adds nothing to retries or failover_count.
C21_RetriesCountErrors ==
    \A r \in Reqs : Done(r) =>
        /\ Res(r).retries = Cardinality(ErrorVisits(r))
        /\ Res(r).failover_count <=
              Cardinality({i \in 1..Len(Visited(r)) :
                              Visited(r)[i].status \in {"error", "schema_failover"}})

\* the step in which request r starts a provider call, and the provider called
CallStarts(r) ==
    /\ req'[r].pc = "calling"
    /\ req[r].pc # "calling" \/ Len(req'[r].visited) > Len(req[r].visited)
StartedProvider(r) == get_provider(req'[r].visited[Len(req'[r].visited)].name)

\* C22: no provider call is started, in the base chain or in the escalation list and
\* under any interleaving of concurrent requests, for a provider that at that moment
\* is unavailable (credential unset, or a failure recorded since its last success
\* less than cooldown_sec ago) or whose tier is budget-denied; the candidates
\* passed over change neither the counters nor the failure records nor the ledger:
\* a request that starts has both counters at zero and leaves records and ledger
\* alone, and a step from a call adds at most one to each counter and changes at
\* most the failure record of the provider that was called.
C22_NoCallWhenDenied ==
    [][ \A r \in Reqs :
          /\ CallStarts(r) =>
                LET p == StartedProvider(r)
                    h == hist'[FailKey(p)]
                IN /\ p.key_env \in environ'
                   /\ ~(h.failed_since_ok /\ now' - h.last_fail < config'.cooldown_sec)
                   /\ \/ p.tier = "free"
                      \/ ~config'.block_on_exceed
                      \/ /\ daily_spend'[today'] < config'.daily_limit_usd
                         /\ monthly_spend'[MonthOf(today')] < config'.monthly_limit_usd
          /\ (req[r].pc = "idle" /\ req'[r].pc # "idle") =>
                /\ req'[r].retries = 0 /\ req'[r].failover_count = 0
                /\ provider_failures' = provider_failures
                /\ ~LedgerChanged
          /\ (req[r].pc = "calling" /\ req'[r] # req[r]) =>
                /\ req'[r].retries <= req[r].retries + 1
                /\ req'[r].failover_count <= req[r].failover_count + 1
                /\ \A k \in FailKeys :
                      k # FailKey(get_provider(CurrentName(req[r])))
                      => provider_failures'[k] = provider_failures[k]
      ]_vars
\* while another request is in flight, a request passed over a provider in cooldown
\* and is calling a later candidate
C22_Witness ==
    \E r, q \in Reqs :
        /\ r # q /\ req[q].pc # "idle"
        /\ req[r].pc = "calling"
        /\ \E i \in 1..Len(Visited(r)) :
              /\ Visited(r)[i].status = "unavailable"
              /\ get_provider(Visited(r)[i].name).key_env \in environ
        /\ LastVisit(r).status = "calling"

\* C23: a success result has escalated = true only when the provider that produced
\* the reply was taken from the escalation list, never when it is a member of the
\* base chain.
C23_EscalatedMeansEscalationList ==
    \A r \in Reqs :
        (Done(r) /\ IsSuccess(r) /\ Res(r).escalated)
        => /\ LastVisit(r).phase = "esc"
           /\ InSeq(Res(r).provider, req[r].escalation_chain)
           /\ ~InSeq(Res(r).provider, req[r].chain)

C24_CostOfPromptAndReply ==
    [][ \A r \in Reqs :
           (req[r].pc = "calling" /\ req'[r].pc = "done" /\ req'[r].result.error = NoError
              /\ get_provider(CurrentName(req[r])).cost_per_1k_tokens > 0)
           => LET prov == get_provider(CurrentName(req[r]))
                  estimated_tokens ==
                      (ReplyLen(req'[r].result.reply) + req[r].sent_len) \div 4
              IN /\ daily_spend'[today] =
                       daily_spend[today] + prov.cost_per_1k_tokens * estimated_tokens
                 /\ monthly_spend'[MonthOf(today)] =
                       monthly_spend[MonthOf(today)] + prov.cost_per_1k_tokens * estimated_tokens
      ]_vars

\* C29: after clear_session(id) the history of that session holds no message
\* belonging to a route_chat call that started before the clear, also when that
\* call was still waiting for a provider reply at the moment of the clear: a call
\* whose session was cleared since it started stores no message in it.
C29_ClearedCallStoresNothing ==
    [][ \A r \in Reqs :
           (req[r].pc = "calling" /\ req[r].session # "" /\ req[r].cleared)
           => \/ sessions'[req[r].session].messages = sessions[req[r].session].messages
              \/ sessions'[req[r].session].messages = <<>>
      ]_vars

\* the names of a sequence that are (not) names of registered premium providers
PremiumNames == {p.name : p \in {q \in ProviderSet : q.tier = "premium"}}
RECURSIVE Without(_, _)
Without(seq, names) ==
    IF seq = <<>> THEN <<>>
    ELSE IF Head(seq) \in names THEN Without(Tail(seq), names)
    ELSE <<Head(seq)>> \o Without(Tail(seq), names)

\* C25: with priority critical the candidate sequence is all registered premium-tier
\* providers followed by the configured chain of the task class without its
\* premium members, in unchanged relative order: every premium provider stands
\* before every other name, each premium name stands in it once, and without the
\* premium names the sequence is the configured chain without them.
C25_CriticalChain ==
    \A r \in Reqs :
        (req[r].pc # "idle" /\ req[r].priority = "critical") =>
            LET chain == req[r].chain
                n == Cardinality(PremiumNames)
            IN /\ Len(chain) >= n
               /\ {chain[i] : i \in 1..n} = PremiumNames
               /\ \A i \in (n + 1)..Len(chain) : chain[i] \notin PremiumNames
               /\ SubSeq(chain, n + 1, Len(chain)) =
                     Without(configured_chain(req[r].task_class), PremiumNames)
\* a critical request whose configured chain held a premium provider behind a free one
C25_Witness ==
    \E r \in Reqs :
        /\ req[r].pc # "idle" /\ req[r].priority = "critical"
        /\ LET cfgd == configured_chain(req[r].task_class)
           IN /\ Len(cfgd) >= 2
              /\ cfgd[1] \notin PremiumNames /\ cfgd[2] \in PremiumNames
              /\ req[r].chain[1] = cfgd[2] /\ req[r].chain[2] = cfgd[1]
              /\ Len(req[r].chain) = Len(cfgd)

\* C27: whenever normalize extracts a non-empty JSON object, whatever its keys and
\* value types, the result has valid = true and no violations; valid = false is
\* returned only for a text from which no JSON object could be extracted, so that
\* route, which counts a schema mismatch exactly when valid is false, counts one only
\* for such replies.
C27_InvalidOnlyWithoutJson ==
    norm.called =>
        LET extracted == extract_json(norm.text)
        IN /\ (extracted # PNone /\ DOMAIN extracted.d # {})
                => norm.out.valid /\ norm.out.violations = <<>>
           /\ ~norm.out.valid => extracted = PNone

\* C28: normalize takes the no-parseable-JSON fallback only when no extraction step
\* yields a JSON object: whenever the text carries an object that parses, an empty
\* object included, the six fields of the result are the ones built from that
\* object and the raw text is not used as summary and title.
C28_FallbackOnlyWithoutObject ==
    norm.called =>
        LET extracted == extract_json(norm.text)
        IN extracted # PNone =>
              /\ SixFields(norm.out) = coerce_to_schema(extracted.d)
              /\ norm.out.violations = validate_schema(coerce_to_schema(extracted.d))


\* C30: in the agent lifecycle state machine, an agent that enters the error state
\* three times in a row through transition() ends in suspended instead of error on
\* the third entry, with the counter at zero; and the consecutive-error counter goes
\* back to zero only by that suspension or by a return to online through transition().
C30_ThirdErrorSuspends ==
    [][\A a \in AgentIds :
          LET before == agents.profile[a]
              after == agents'.profile[a]
              call == agents'.last
              by_transition == agents' # agents /\ call.via = "transition"
                               /\ call.agent = a /\ call.success
          IN /\ (by_transition /\ call.nth = 3)
                   => /\ after.status = "suspended"
                      /\ call.new_state = "suspended"
                      /\ agents'.registry[a] = "suspended"
                      /\ after.consecutive_errors = 0
             /\ (before.consecutive_errors # 0 /\ after.consecutive_errors = 0)
                   => /\ by_transition
                      /\ \/ call.requested = "error" /\ call.new_state = "suspended"
                         \/ call.requested = "online" /\ call.new_state = "online"]_vars

C30_Witness ==
    /\ agents.last.via = "transition"
    /\ agents.last.requested = "error"
    /\ agents.last.nth = 3
    /\ agents.profile["A0002"].status = "suspended"
    /\ agents.last.agent = "A0002"
====
